---- MODULE Spec2Model ----
(***************************************************************************)
(* Model of the expo-backend request handlers: the push-token registry     *)
(* (routes/mobile/users.ts), the notification fan-out                      *)
(* (utils/sendNotification.ts and the notifications router) and the        *)
(* shared-playlist access rule (index.ts).                                 *)
(*                                                                         *)
(* Every handler is an async function: the code between two awaits runs    *)
(* atomically, and other requests may run at each await.  A request in     *)
(* flight lives in a slot of reqs with its position pc and its locals.     *)
(* res is the HTTP response written by the latest step ("" when the step   *)
(* wrote none); expoCalls are the batches that step handed to the Expo     *)
(* client.                                                                 *)
(***************************************************************************)
EXTENDS Integers, Sequences, FiniteSets, TLC

VARIABLES pushTokens, playlists, messages, follows, reqs, res, expoCalls, clock, nreq

vars == <<pushTokens, playlists, messages, follows, reqs, res, expoCalls, clock, nreq>>

\* ---------------------------------------------------------------- bounds
\* Requests that may be in flight at the same time.
NumSlots == 2
\* Requests started in one behaviour.
MaxRequests == 4
\* Longest token list handed directly to sendPushNotification.
MaxTokens == 4
\* Messages per batch of expo.chunkPushNotifications (100 in expo-server-sdk).
ChunkLimit == 2

Slots == 1..NumSlots

\* ---------------------------------------------------------------- values
Users == {"u1", "u2", "u3"}
\* A user id no User row has.
NoUser == "nobody"
WellFormed == {"ExponentPushToken[a]", "ExponentPushToken[b]"}
Malformed == "bad-token"
Platforms == {"ios", "android"}

NoPlaylist == [id |-> 0, userId |-> "", name |-> "", songs |-> <<>>]

IdleReq ==
    [op |-> "", pc |-> "", user |-> "", token |-> "", platform |-> "",
     tokenId |-> 0, existingToken |-> 0, target |-> "", playlistId |-> 0,
     rowId |-> 0, playlistName |-> ""]

NoRes ==
    [op |-> "", user |-> "", status |-> 0, error |-> "", token |-> "",
     platform |-> "", tokenId |-> 0, target |-> "", playlistId |-> 0,
     playlist |-> NoPlaylist, rowId |-> 0, notif |-> "", tokens |-> <<>>,
     tickets |-> <<>>, provider |-> <<>>, targets |-> <<>>, faults |-> <<>>,
     results |-> <<>>, errors |-> <<>>, total |-> 0, successful |-> 0,
     failed |-> 0, sharedPlaylists |-> <<>>, title |-> "", body |-> <<>>,
     count |-> 0]

Init ==
    /\ pushTokens = {}
    /\ playlists = {}
    /\ messages = {}
    /\ follows = {}
    /\ reqs = [s \in Slots |-> IdleReq]
    /\ res = NoRes
    /\ expoCalls = <<>>
    /\ clock = 0
    /\ nreq = 0

\* nreq counts the requests started so far and clock the rows written: ids
\* (cuid) and timestamps are taken from clock, so both grow with every write.
Idle(s) == reqs[s].op = ""
NoneInFlight == \A s \in Slots : Idle(s)
CanStart(s) == Idle(s) /\ nreq < MaxRequests

\* A step that ends the request of slot s with response r.
Respond(s, r) ==
    /\ res' = r
    /\ reqs' = [reqs EXCEPT ![s] = IdleReq]

\* A step that leaves the request of slot s in flight as q.
Continue(s, q) ==
    /\ res' = NoRes
    /\ reqs' = [reqs EXCEPT ![s] = q]

\* ------------------------------------------------------- token registry
\* prisma.pushToken.findFirst({ where: { userId, token } })
FindFirstAnyTokenOfUser(rows, userId, token) ==
    {r \in rows : r.userId = userId}

findFirstPushToken(rows, userId, token) ==
    {r \in rows : r.userId = userId /\ r.token = token}

\* The (userId, token) uniqueness constraint of the PushToken table.
UniqueUserTokenViolated(rows, userId, token) ==
    \E r \in rows : r.userId = userId /\ r.token = token

\* data: { platform, updatedAt: new Date() }
UpdateKeepsPlatform(row, platform, now) ==
    [row EXCEPT !.updatedAt = now]

updatePushToken(row, platform, now) ==
    [row EXCEPT !.platform = platform, !.updatedAt = now]

\* data: { userId, token, platform }
createPushToken(id, userId, token, platform, now) ==
    [id |-> id, userId |-> userId, token |-> token, platform |-> platform,
     createdAt |-> now, updatedAt |-> now]

RegRes(q, status, error) ==
    [NoRes EXCEPT !.op = "registerPushToken", !.user = q.user,
                  !.token = q.token, !.platform = q.platform,
                  !.tokenId = q.existingToken, !.status = status,
                  !.error = error]

RegisterAcceptsAnyPlatform(s, userId, token, platform) ==
    /\ CanStart(s)
    /\ nreq' = nreq + 1
    /\ LET q == [IdleReq EXCEPT !.op = "registerPushToken", !.user = userId,
                                !.token = token, !.platform = platform]
           found == findFirstPushToken(pushTokens, userId, token)
       IN  IF token = "" \/ platform = ""
           THEN Respond(s, RegRes(q, 400, "Token and platform are required"))
           ELSE IF found = {}
           THEN Continue(s, [q EXCEPT !.pc = "create"])
           ELSE \E r \in found :
                    Continue(s, [q EXCEPT !.pc = "update", !.existingToken = r.id])
    /\ expoCalls' = <<>>
    /\ UNCHANGED <<pushTokens, playlists, messages, follows, clock>>

\* The handler up to the result of its first query: validation, findFirst.
registerPushToken(s, userId, token, platform) ==
    /\ CanStart(s)
    /\ nreq' = nreq + 1
    /\ LET q == [IdleReq EXCEPT !.op = "registerPushToken", !.user = userId,
                                !.token = token, !.platform = platform]
           found == findFirstPushToken(pushTokens, userId, token)
       IN  IF token = "" \/ platform = ""
           THEN Respond(s, RegRes(q, 400, "Token and platform are required"))
           ELSE IF platform \notin Platforms
           THEN Respond(s, RegRes(q, 400, "Platform must be either ios or android"))
           ELSE IF found = {}
           THEN Continue(s, [q EXCEPT !.pc = "create"])
           ELSE \E r \in found :
                    Continue(s, [q EXCEPT !.pc = "update", !.existingToken = r.id])
    /\ expoCalls' = <<>>
    /\ UNCHANGED <<pushTokens, playlists, messages, follows, clock>>

\* prisma.pushToken.update({ where: { id: existingToken.id }, ... }); a row
\* deleted since the findFirst makes update throw (P2025), caught as a 500.
registerPushToken_update(s) ==
    /\ reqs[s].op = "registerPushToken" /\ reqs[s].pc = "update"
    /\ LET q == reqs[s]
           hit == {r \in pushTokens : r.id = q.existingToken}
       IN  IF hit = {}
           THEN /\ Respond(s, RegRes(q, 500, "P2025"))
                /\ UNCHANGED <<pushTokens, clock>>
           ELSE /\ pushTokens' = (pushTokens \ hit) \cup
                        {updatePushToken(r, q.platform, clock + 1) : r \in hit}
                /\ clock' = clock + 1
                /\ Continue(s, [q EXCEPT !.pc = "count"])
    /\ expoCalls' = <<>>
    /\ UNCHANGED <<playlists, messages, follows, nreq>>

\* prisma.pushToken.create(...); the insert of a pair that has a row by now
\* violates the uniqueness constraint (P2002), caught by the outer catch.
registerPushToken_create(s) ==
    /\ reqs[s].op = "registerPushToken" /\ reqs[s].pc = "create"
    /\ LET q == reqs[s]
       IN  IF UniqueUserTokenViolated(pushTokens, q.user, q.token)
           THEN /\ Respond(s, RegRes(q, 500, "P2002"))
                /\ UNCHANGED <<pushTokens, clock>>
           ELSE /\ pushTokens' = pushTokens \cup
                        {createPushToken(clock + 1, q.user, q.token, q.platform, clock + 1)}
                /\ clock' = clock + 1
                /\ Continue(s, [q EXCEPT !.pc = "count"])
    /\ expoCalls' = <<>>
    /\ UNCHANGED <<playlists, messages, follows, nreq>>

\* prisma.pushToken.count(...) and res.json({ success: true, ... })
registerPushToken_count(s) ==
    /\ reqs[s].op = "registerPushToken" /\ reqs[s].pc = "count"
    /\ Respond(s, RegRes(reqs[s], 200, ""))
    /\ expoCalls' = <<>>
    /\ UNCHANGED <<pushTokens, playlists, messages, follows, clock, nreq>>

DelRes(q, status, error) ==
    [NoRes EXCEPT !.op = "deletePushToken", !.user = q.user,
                  !.tokenId = q.tokenId, !.status = status, !.error = error]

DeleteIgnoresOwner(s, userId, tokenId) ==
    /\ CanStart(s)
    /\ nreq' = nreq + 1
    /\ LET q == [IdleReq EXCEPT !.op = "deletePushToken", !.user = userId,
                                !.tokenId = tokenId]
           found == {r \in pushTokens : r.id = tokenId}
       IN  IF found = {}
           THEN Respond(s, DelRes(q, 404, "Token not found"))
           ELSE Continue(s, [q EXCEPT !.pc = "delete"])
    /\ expoCalls' = <<>>
    /\ UNCHANGED <<pushTokens, playlists, messages, follows, clock>>

\* The handler up to the result of findFirst({ where: { id, userId } }).
deletePushToken(s, userId, tokenId) ==
    /\ CanStart(s)
    /\ nreq' = nreq + 1
    /\ LET q == [IdleReq EXCEPT !.op = "deletePushToken", !.user = userId,
                                !.tokenId = tokenId]
           found == {r \in pushTokens : r.id = tokenId /\ r.userId = userId}
       IN  IF found = {}
           THEN Respond(s, DelRes(q, 404, "Token not found"))
           ELSE Continue(s, [q EXCEPT !.pc = "delete"])
    /\ expoCalls' = <<>>
    /\ UNCHANGED <<pushTokens, playlists, messages, follows, clock>>

\* prisma.pushToken.delete({ where: { id: tokenId } }); throws when the row
\* is gone (P2025), caught as a 500.
deletePushToken_delete(s) ==
    /\ reqs[s].op = "deletePushToken" /\ reqs[s].pc = "delete"
    /\ LET q == reqs[s]
           hit == {r \in pushTokens : r.id = q.tokenId}
       IN  IF hit = {}
           THEN /\ Respond(s, DelRes(q, 500, "P2025"))
                /\ UNCHANGED pushTokens
           ELSE /\ pushTokens' = pushTokens \ hit
                /\ Respond(s, DelRes(q, 200, ""))
    /\ expoCalls' = <<>>
    /\ UNCHANGED <<playlists, messages, follows, clock, nreq>>

\* ------------------------------------------------------------- fan-out
\* Expo.isExpoPushToken(pushToken)
isExpoPushToken(t) == t \in WellFormed

\* The messages built by the first loop: one per well-formed token, in order.
buildMessages(tokens) == SelectSeq(tokens, isExpoPushToken)

\* expo.chunkPushNotifications(messages): consecutive batches of at most
\* ChunkLimit messages.
RECURSIVE ChunksOneTooLong(_)
ChunksOneTooLong(msgs) ==
    IF Len(msgs) = 0 THEN <<>>
    ELSE IF Len(msgs) <= ChunkLimit + 1 THEN <<msgs>>
    ELSE <<SubSeq(msgs, 1, ChunkLimit + 1)>>
            \o ChunksOneTooLong(SubSeq(msgs, ChunkLimit + 2, Len(msgs)))

RECURSIVE chunkPushNotifications(_)
chunkPushNotifications(msgs) ==
    IF Len(msgs) = 0 THEN <<>>
    ELSE IF Len(msgs) <= ChunkLimit THEN <<msgs>>
    ELSE <<SubSeq(msgs, 1, ChunkLimit)>>
            \o chunkPushNotifications(SubSeq(msgs, ChunkLimit + 1, Len(msgs)))

\* What the Expo service does with one submitted batch: it accepts every
\* message ("ok"), rejects every message ("error"), or the call throws.
ProviderOutcomes == {"ok", "error", "throw"}
MaxChunks == (MaxTokens + ChunkLimit - 1) \div ChunkLimit
ProviderBehaviours == [1..MaxChunks -> ProviderOutcomes]

ticketChunk(chunk, outcome) == [i \in 1..Len(chunk) |-> [status |-> outcome]]

\* The second loop from batch i on: [tickets, submitted, threw].
RECURSIVE SendLoopAbortsOnThrow(_, _, _, _, _)
SendLoopAbortsOnThrow(chunks, provider, i, tickets, submitted) ==
    IF i > Len(chunks)
    THEN [tickets |-> tickets, submitted |-> submitted, threw |-> FALSE]
    ELSE IF provider[i] = "throw"
    THEN [tickets |-> tickets, submitted |-> Append(submitted, chunks[i]),
          threw |-> TRUE]
    ELSE SendLoopAbortsOnThrow(chunks, provider, i + 1,
             tickets \o ticketChunk(chunks[i], provider[i]),
             Append(submitted, chunks[i]))

RECURSIVE sendChunks(_, _, _, _, _)
sendChunks(chunks, provider, i, tickets, submitted) ==
    IF i > Len(chunks)
    THEN [tickets |-> tickets, submitted |-> submitted, threw |-> FALSE]
    ELSE IF provider[i] = "throw"
    THEN sendChunks(chunks, provider, i + 1, tickets, Append(submitted, chunks[i]))
    ELSE sendChunks(chunks, provider, i + 1,
             tickets \o ticketChunk(chunks[i], provider[i]),
             Append(submitted, chunks[i]))

sendPushNotification(tokens, provider) ==
    sendChunks(chunkPushNotifications(buildMessages(tokens)), provider, 1, <<>>, <<>>)

TokenLists ==
    UNION {[1..n -> WellFormed \cup {Malformed}] : n \in 0..MaxTokens}

\* A direct call of the exported sendPushNotification with any token list.
\* res.provider records what the service did with each submitted batch.
callSendPushNotification ==
    \E tokens \in TokenLists, provider \in ProviderBehaviours :
        LET r == sendPushNotification(tokens, provider)
        IN  /\ res' = [NoRes EXCEPT !.op = "sendPushNotification",
                                    !.tokens = tokens,
                                    !.tickets = r.tickets,
                                    !.provider = SubSeq(provider, 1, Len(r.submitted)),
                                    !.error = IF r.threw THEN "threw" ELSE ""]
            /\ expoCalls' = r.submitted
            /\ UNCHANGED <<pushTokens, playlists, messages, follows, reqs, clock, nreq>>

NextPush == callSendPushNotification

SpecPush == Init /\ [][NextPush]_vars

\* The user's token rows as the list findMany returns, here by ascending id.
RECURSIVE RowsById(_)
RowsById(rows) ==
    IF rows = {} THEN <<>>
    ELSE LET first == CHOOSE r \in rows : \A x \in rows : r.id <= x.id
         IN  <<first>> \o RowsById(rows \ {first})

FindManyAllTokens(rows, userId) ==
    LET list == RowsById(rows)
    IN  [i \in 1..Len(list) |-> list[i].token]

\* prisma.pushToken.findMany({ where: { userId }, select: { token: true } })
\* followed by pushTokens.map(pt => pt.token)
findManyTokens(rows, userId) ==
    LET list == RowsById({r \in rows : r.userId = userId})
    IN  [i \in 1..Len(list) |-> list[i].token]

\* The body shared by sendFollowNotification and sendMessageNotification:
\* token lookup (which may throw and is rethrown), early return without
\* tokens, otherwise sendPushNotification.  outcome is "threw", "nothing"
\* (returned undefined) or "tickets".
sendToUser(rows, userId, lookupThrows, provider) ==
    IF lookupThrows
    THEN [outcome |-> "threw", tokens |-> <<>>, tickets |-> <<>>, submitted |-> <<>>]
    ELSE LET tokens == findManyTokens(rows, userId)
         IN  IF Len(tokens) = 0
             THEN [outcome |-> "nothing", tokens |-> tokens, tickets |-> <<>>,
                   submitted |-> <<>>]
             ELSE LET r == sendPushNotification(tokens, provider)
                  IN  [outcome |-> "tickets", tokens |-> tokens,
                       tickets |-> r.tickets, submitted |-> r.submitted]

sendFollowNotification(rows, targetUserId, lookupThrows, provider) ==
    sendToUser(rows, targetUserId, lookupThrows, provider)

sendMessageNotification(rows, recipientId, lookupThrows, provider) ==
    sendToUser(rows, recipientId, lookupThrows, provider)

\* try { await send...Notification(...) } catch { console.error(...) }: the
\* status the handler answers with after the notification step.
\* sendPlaylistLikeNotification and sendPlaylistCommentNotification: nothing
\* is looked up, built or sent when the actor is the playlist owner.
LikeNotifiesOwnerAlways(rows, likerId, playlistOwnerId, lookupThrows, provider) ==
    LET n == sendToUser(rows, playlistOwnerId, lookupThrows, provider)
    IN  [title |-> IF n.outcome = "tickets" THEN "Playlist Liked" ELSE ""] @@ n

sendPlaylistLikeNotification(rows, likerId, playlistOwnerId, lookupThrows, provider) ==
    IF likerId = playlistOwnerId
    THEN [outcome |-> "nothing", tokens |-> <<>>, tickets |-> <<>>,
          submitted |-> <<>>, title |-> ""]
    ELSE LET n == sendToUser(rows, playlistOwnerId, lookupThrows, provider)
         IN  [title |-> IF n.outcome = "tickets" THEN "Playlist Liked" ELSE ""] @@ n

sendPlaylistCommentNotification(rows, commenterId, ownerId, lookupThrows, provider) ==
    IF commenterId = ownerId
    THEN [outcome |-> "nothing", tokens |-> <<>>, tickets |-> <<>>,
          submitted |-> <<>>, title |-> ""]
    ELSE LET n == sendToUser(rows, ownerId, lookupThrows, provider)
         IN  [title |-> IF n.outcome = "tickets" THEN "New Comment" ELSE ""] @@ n

\* A direct call of one of the two exported functions; error is "threw" when
\* the call rejects.
callOwnerNotification(op, n, actorId, playlistOwnerId) ==
    /\ nreq < MaxRequests
    /\ nreq' = nreq + 1
    /\ res' = [NoRes EXCEPT !.op = op, !.user = actorId, !.target = playlistOwnerId,
                            !.notif = n.outcome, !.tokens = n.tokens,
                            !.tickets = n.tickets, !.title = n.title,
                            !.error = IF n.outcome = "threw" THEN "threw" ELSE ""]
    /\ expoCalls' = n.submitted
    /\ UNCHANGED <<pushTokens, playlists, messages, follows, reqs, clock>>

callSendPlaylistLikeNotification(likerId, playlistOwnerId, lookupThrows, provider) ==
    callOwnerNotification("sendPlaylistLikeNotification",
        sendPlaylistLikeNotification(pushTokens, likerId, playlistOwnerId,
                                     lookupThrows, provider),
        likerId, playlistOwnerId)

callSendPlaylistCommentNotification(commenterId, ownerId, lookupThrows, provider) ==
    callOwnerNotification("sendPlaylistCommentNotification",
        sendPlaylistCommentNotification(pushTokens, commenterId, ownerId,
                                        lookupThrows, provider),
        commenterId, ownerId)

NotificationFailureFailsRequest(outcome) ==
    IF outcome = "threw" THEN 500 ELSE 200

statusAfterNotification(outcome) == 200

\* --------------------------------------------------- notifications router
\* POST /send: the whole handler.
sendNotification(userId, targetUserId, title, lookupThrows, provider) ==
    /\ nreq < MaxRequests
    /\ nreq' = nreq + 1
    /\ LET base == [NoRes EXCEPT !.op = "sendNotification", !.user = userId,
                                 !.target = targetUserId]
           tokens == findManyTokens(pushTokens, targetUserId)
           r == sendPushNotification(tokens, provider)
       IN  IF targetUserId = "" \/ title = ""
           THEN /\ res' = [base EXCEPT !.status = 400,
                               !.error = "targetUserId, title, and body are required"]
                /\ expoCalls' = <<>>
           ELSE IF targetUserId \notin Users
           THEN /\ res' = [base EXCEPT !.status = 404, !.error = "Target user not found"]
                /\ expoCalls' = <<>>
           ELSE IF lookupThrows
           THEN /\ res' = [base EXCEPT !.status = 500, !.error = "threw",
                                       !.notif = "threw"]
                /\ expoCalls' = <<>>
           ELSE IF Len(tokens) = 0
           THEN /\ res' = [base EXCEPT !.status = 404,
                               !.error = "No push tokens found for target user",
                               !.notif = "nothing"]
                /\ expoCalls' = <<>>
           ELSE /\ res' = [base EXCEPT !.status = 200, !.notif = "tickets",
                                       !.tokens = tokens, !.tickets = r.tickets]
                /\ expoCalls' = r.submitted
    /\ UNCHANGED <<pushTokens, playlists, messages, follows, reqs, clock>>

\* The for loop of sendNotificationToMultiple from target i on.  faults[i]
\* says whether a lookup of the i-th iteration throws; acc collects results,
\* errors and the batches handed to the provider.
RECURSIVE NotifyStopsAtFirstError(_, _, _, _, _, _)
NotifyStopsAtFirstError(rows, targets, faults, provider, i, acc) ==
    IF i > Len(targets) THEN acc
    ELSE LET u == targets[i]
             tokens == findManyTokens(rows, u)
             r == sendPushNotification(tokens, provider)
         IN  IF faults[i]
             THEN [acc EXCEPT !.errors = Append(@, [userId |-> u, error |-> "threw"])]
             ELSE IF u \notin Users
             THEN [acc EXCEPT !.errors =
                       Append(@, [userId |-> u, error |-> "User not found"])]
             ELSE IF Len(tokens) = 0
             THEN [acc EXCEPT !.errors =
                       Append(@, [userId |-> u, error |-> "No push tokens found"])]
             ELSE NotifyStopsAtFirstError(rows, targets, faults, provider, i + 1,
                      [acc EXCEPT !.results =
                                      Append(@, [userId |-> u,
                                                 tokensCount |-> Len(tokens),
                                                 tickets |-> r.tickets]),
                                  !.submitted = @ \o r.submitted])

RECURSIVE NotifySkipsUnknownUsers(_, _, _, _, _, _)
NotifySkipsUnknownUsers(rows, targets, faults, provider, i, acc) ==
    IF i > Len(targets) THEN acc
    ELSE LET u == targets[i]
             tokens == findManyTokens(rows, u)
             r == sendPushNotification(tokens, provider)
             next ==
                 IF faults[i]
                 THEN [acc EXCEPT !.errors =
                           Append(@, [userId |-> u, error |-> "threw"])]
                 ELSE IF u \notin Users
                 THEN acc
                 ELSE IF Len(tokens) = 0
                 THEN [acc EXCEPT !.errors =
                           Append(@, [userId |-> u, error |-> "No push tokens found"])]
                 ELSE [acc EXCEPT !.results =
                                      Append(@, [userId |-> u,
                                                 tokensCount |-> Len(tokens),
                                                 tickets |-> r.tickets]),
                                  !.submitted = @ \o r.submitted]
         IN  NotifySkipsUnknownUsers(rows, targets, faults, provider, i + 1, next)

RECURSIVE notifyEach(_, _, _, _, _, _)
notifyEach(rows, targets, faults, provider, i, acc) ==
    IF i > Len(targets) THEN acc
    ELSE LET u == targets[i]
             tokens == findManyTokens(rows, u)
             r == sendPushNotification(tokens, provider)
             next ==
                 IF faults[i]
                 THEN [acc EXCEPT !.errors =
                           Append(@, [userId |-> u, error |-> "threw"])]
                 ELSE IF u \notin Users
                 THEN [acc EXCEPT !.errors =
                           Append(@, [userId |-> u, error |-> "User not found"])]
                 ELSE IF Len(tokens) = 0
                 THEN [acc EXCEPT !.errors =
                           Append(@, [userId |-> u, error |-> "No push tokens found"])]
                 ELSE [acc EXCEPT !.results =
                                      Append(@, [userId |-> u,
                                                 tokensCount |-> Len(tokens),
                                                 tickets |-> r.tickets]),
                                  !.submitted = @ \o r.submitted]
         IN  notifyEach(rows, targets, faults, provider, i + 1, next)

\* POST /send-multiple: the whole handler.  An absent, non-array or empty
\* targetUserIds is the empty list.
sendNotificationToMultiple(userId, targets, title, faults, provider) ==
    /\ nreq < MaxRequests
    /\ nreq' = nreq + 1
    /\ LET base == [NoRes EXCEPT !.op = "sendNotificationToMultiple",
                                 !.user = userId, !.targets = targets]
           r == notifyEach(pushTokens, targets, faults, provider, 1,
                           [results |-> <<>>, errors |-> <<>>, submitted |-> <<>>])
       IN  IF Len(targets) = 0
           THEN /\ res' = [base EXCEPT !.status = 400,
                      !.error = "targetUserIds array is required and must not be empty"]
                /\ expoCalls' = <<>>
           ELSE IF title = ""
           THEN /\ res' = [base EXCEPT !.status = 400,
                                       !.error = "title and body are required"]
                /\ expoCalls' = <<>>
           ELSE /\ res' = [base EXCEPT !.status = 200,
                               !.faults = faults,
                               !.provider = provider,
                               !.total = Len(targets),
                               !.successful = Len(r.results),
                               !.failed = Len(r.errors),
                               !.results = r.results,
                               !.errors = r.errors]
                /\ expoCalls' = r.submitted
    /\ UNCHANGED <<pushTokens, playlists, messages, follows, reqs, clock>>

\* ------------------------------------------------------------- playlists
\* POST /: the whole handler.
createPlaylist(userId, name) ==
    /\ nreq < MaxRequests
    /\ nreq' = nreq + 1
    /\ LET base == [NoRes EXCEPT !.op = "createPlaylist", !.user = userId]
           row == [id |-> clock + 1, userId |-> userId, name |-> name, songs |-> <<>>]
       IN  IF name = ""
           THEN /\ res' = [base EXCEPT !.status = 400,
                                       !.error = "Valid playlist name is required"]
                /\ UNCHANGED <<playlists, clock>>
           ELSE /\ playlists' = playlists \cup {row}
                /\ clock' = clock + 1
                /\ res' = [base EXCEPT !.status = 200, !.playlistId = row.id,
                                       !.playlist = row]
    /\ expoCalls' = <<>>
    /\ UNCHANGED <<pushTokens, messages, follows, reqs>>

NoMessage ==
    [id |-> 0, fromId |-> "", toId |-> "", playlistId |-> 0, content |-> "",
     createdAt |-> 0, isRead |-> FALSE, readAt |-> 0]

\* prisma.message.findFirst({ where: { toId: user.id, playlistId } }): the
\* rows it may return, NoMessage standing for null.
FindMessageBySender(msgs, userId, playlistId) ==
    LET found == {m \in msgs : m.fromId = userId /\ m.playlistId = playlistId}
    IN  IF found = {} THEN {NoMessage} ELSE found

findSharingMessage(msgs, userId, playlistId) ==
    LET found == {m \in msgs : m.toId = userId /\ m.playlistId = playlistId}
    IN  IF found = {} THEN {NoMessage} ELSE found

\* where: { id: playlistId, OR: [{ userId: user.id }, { id: message?.playlistId }] }
\* With message null the second filter is { id: undefined }, which Prisma
\* drops from the OR.
UndefinedFilterMatchesAll(p, playlistId, userId, message) ==
    /\ p.id = playlistId
    /\ \/ p.userId = userId
       \/ message = NoMessage
       \/ p.id = message.playlistId

playlistWhere(p, playlistId, userId, message) ==
    /\ p.id = playlistId
    /\ \/ p.userId = userId
       \/ message # NoMessage /\ p.id = message.playlistId

GetSharedPlaylistTellsForbidden(userId, playlistId) ==
    /\ nreq < MaxRequests
    /\ nreq' = nreq + 1
    /\ \E message \in findSharingMessage(messages, userId, playlistId) :
          LET base == [NoRes EXCEPT !.op = "getSharedPlaylist", !.user = userId,
                                    !.playlistId = playlistId]
              found == {p \in playlists : playlistWhere(p, playlistId, userId, message)}
          IN  IF found = {}
              THEN IF \E p \in playlists : p.id = playlistId
                   THEN res' = [base EXCEPT !.status = 403, !.error = "Unauthorized"]
                   ELSE res' = [base EXCEPT !.status = 404,
                                            !.error = "Playlist not found"]
              ELSE \E p \in found :
                       res' = [base EXCEPT !.status = 200, !.playlist = p]
    /\ expoCalls' = <<>>
    /\ UNCHANGED <<pushTokens, playlists, messages, follows, reqs, clock>>

\* GET /:playlistId: the whole handler.
getSharedPlaylist(userId, playlistId) ==
    /\ nreq < MaxRequests
    /\ nreq' = nreq + 1
    /\ \E message \in findSharingMessage(messages, userId, playlistId) :
          LET base == [NoRes EXCEPT !.op = "getSharedPlaylist", !.user = userId,
                                    !.playlistId = playlistId]
              found == {p \in playlists : playlistWhere(p, playlistId, userId, message)}
          IN  IF found = {}
              THEN res' = [base EXCEPT !.status = 404,
                                       !.error = "Playlist not found or unauthorized"]
              ELSE \E p \in found :
                       res' = [base EXCEPT !.status = 200, !.playlist = p]
    /\ expoCalls' = <<>>
    /\ UNCHANGED <<pushTokens, playlists, messages, follows, reqs, clock>>

\* POST /add-song: the whole handler.  A playlist row carries its
\* PlaylistSong rows in songs, oldest first; @@unique([playlistId, songId])
\* makes a second insert of the same song throw P2002, which is ignored.
addSongToPlaylist(userId, playlistId, videoId) ==
    /\ nreq < MaxRequests
    /\ nreq' = nreq + 1
    /\ LET base == [NoRes EXCEPT !.op = "addSongToPlaylist", !.user = userId,
                                 !.playlistId = playlistId]
           owned == {p \in playlists : p.id = playlistId /\ p.userId = userId}
       IN  IF playlistId = 0 \/ videoId = ""
           THEN /\ res' = [base EXCEPT !.status = 400,
                                       !.error = "Missing required fields"]
                /\ UNCHANGED <<playlists, clock>>
           ELSE IF owned = {}
           THEN /\ res' = [base EXCEPT !.status = 404,
                               !.error = "Playlist not found or unauthorized"]
                /\ UNCHANGED <<playlists, clock>>
           ELSE \E p \in owned :
                   /\ res' = [base EXCEPT !.status = 200]
                   /\ IF \E k \in 1..Len(p.songs) : p.songs[k].songId = videoId
                      THEN UNCHANGED <<playlists, clock>>
                      ELSE /\ playlists' = (playlists \ {p}) \cup
                                  {[p EXCEPT !.songs =
                                       Append(@, [songId |-> videoId,
                                                  createdAt |-> clock + 1])]}
                           /\ clock' = clock + 1
    /\ expoCalls' = <<>>
    /\ UNCHANGED <<pushTokens, messages, follows, reqs>>

\* DELETE /:playlistId/songs/:songId: the whole handler.  Deleting a
\* PlaylistSong row that does not exist throws (P2025), passed on as an error.
removeSongFromPlaylist(userId, playlistId, songId) ==
    /\ nreq < MaxRequests
    /\ nreq' = nreq + 1
    /\ LET base == [NoRes EXCEPT !.op = "removeSongFromPlaylist", !.user = userId,
                                 !.playlistId = playlistId]
           owned == {p \in playlists : p.id = playlistId /\ p.userId = userId}
       IN  IF owned = {}
           THEN /\ res' = [base EXCEPT !.status = 404,
                               !.error = "Playlist not found or unauthorized"]
                /\ UNCHANGED playlists
           ELSE \E p \in owned :
                   IF \E k \in 1..Len(p.songs) : p.songs[k].songId = songId
                   THEN /\ res' = [base EXCEPT !.status = 200]
                        /\ playlists' = (playlists \ {p}) \cup
                               {[p EXCEPT !.songs =
                                    SelectSeq(@, LAMBDA x : x.songId # songId)]}
                   ELSE /\ res' = [base EXCEPT !.status = 500, !.error = "P2025"]
                        /\ UNCHANGED playlists
    /\ expoCalls' = <<>>
    /\ UNCHANGED <<pushTokens, messages, follows, reqs, clock>>

UpdateByViewer(userId, playlistId, name) ==
    /\ nreq < MaxRequests
    /\ nreq' = nreq + 1
    /\ LET base == [NoRes EXCEPT !.op = "updatePlaylist", !.user = userId,
                                 !.playlistId = playlistId]
           owned == {p \in playlists :
                        /\ p.id = playlistId
                        /\ \/ p.userId = userId
                           \/ \E m \in messages :
                                  m.toId = userId /\ m.playlistId = playlistId}
       IN  IF name = ""
           THEN /\ res' = [base EXCEPT !.status = 400,
                                       !.error = "Valid playlist name is required"]
                /\ UNCHANGED playlists
           ELSE IF owned = {}
           THEN /\ res' = [base EXCEPT !.status = 404,
                               !.error = "Playlist not found or unauthorized"]
                /\ UNCHANGED playlists
           ELSE \E p \in owned :
                   /\ res' = [base EXCEPT !.status = 200,
                                          !.playlist = [p EXCEPT !.name = name]]
                   /\ playlists' = (playlists \ {p}) \cup {[p EXCEPT !.name = name]}
    /\ expoCalls' = <<>>
    /\ UNCHANGED <<pushTokens, messages, follows, reqs, clock>>

\* PATCH /:playlistId: the whole handler.
updatePlaylist(userId, playlistId, name) ==
    /\ nreq < MaxRequests
    /\ nreq' = nreq + 1
    /\ LET base == [NoRes EXCEPT !.op = "updatePlaylist", !.user = userId,
                                 !.playlistId = playlistId]
           owned == {p \in playlists : p.id = playlistId /\ p.userId = userId}
       IN  IF name = ""
           THEN /\ res' = [base EXCEPT !.status = 400,
                                       !.error = "Valid playlist name is required"]
                /\ UNCHANGED playlists
           ELSE IF owned = {}
           THEN /\ res' = [base EXCEPT !.status = 404,
                               !.error = "Playlist not found or unauthorized"]
                /\ UNCHANGED playlists
           ELSE \E p \in owned :
                   /\ res' = [base EXCEPT !.status = 200,
                                          !.playlist = [p EXCEPT !.name = name]]
                   /\ playlists' = (playlists \ {p}) \cup {[p EXCEPT !.name = name]}
    /\ expoCalls' = <<>>
    /\ UNCHANGED <<pushTokens, messages, follows, reqs, clock>>

\* onDelete: SetNull of Message.playlist: the messages after the playlist
\* row is deleted.
setNullPlaylist(msgs, playlistId) ==
    {IF m.playlistId = playlistId THEN [m EXCEPT !.playlistId = 0] ELSE m : m \in msgs}

\* DELETE /:playlistId: the whole handler.
deletePlaylist(userId, playlistId) ==
    /\ nreq < MaxRequests
    /\ nreq' = nreq + 1
    /\ LET base == [NoRes EXCEPT !.op = "deletePlaylist", !.user = userId,
                                 !.playlistId = playlistId]
           owned == {p \in playlists : p.id = playlistId /\ p.userId = userId}
       IN  IF owned = {}
           THEN /\ res' = [base EXCEPT !.status = 404,
                               !.error = "Playlist not found or unauthorized"]
                /\ UNCHANGED <<playlists, messages>>
           ELSE /\ res' = [base EXCEPT !.status = 200]
                /\ playlists' = playlists \ owned
                /\ messages' = setNullPlaylist(messages, playlistId)
    /\ expoCalls' = <<>>
    /\ UNCHANGED <<pushTokens, follows, reqs, clock>>

\* where: { toId: user.id, NOT: { playlistId: null } }
NewestPerPlaylist(msgs, userId) ==
    {m \in msgs : /\ m.toId = userId /\ m.playlistId # 0
                  /\ \A x \in msgs :
                        (x.toId = userId /\ x.playlistId = m.playlistId)
                            => x.createdAt <= m.createdAt}

sharedMessages(msgs, userId) ==
    {m \in msgs : m.toId = userId /\ m.playlistId # 0}

\* orderBy: { createdAt: 'desc' }
RECURSIVE orderByCreatedAtDesc(_)
orderByCreatedAtDesc(msgs) ==
    IF msgs = {} THEN <<>>
    ELSE LET first == CHOOSE m \in msgs : \A x \in msgs : m.createdAt >= x.createdAt
         IN  <<first>> \o orderByCreatedAtDesc(msgs \ {first})

\* The playlist of a sharedPlaylists entry: id, name, songCount and the
\* songs mapped to their videoId; null is NoSharedPlaylist.
NoSharedPlaylist == [id |-> 0, name |-> "", songCount |-> 0, songs |-> <<>>]

PlaylistWithoutSongs(p) ==
    [id |-> p.id, name |-> p.name, songCount |-> 0, songs |-> <<>>]

sharedPlaylistOf(p) ==
    [id |-> p.id, name |-> p.name, songCount |-> Len(p.songs),
     songs |-> [k \in 1..Len(p.songs) |-> p.songs[k].songId]]

\* One element of sharedPlaylists, from a message with its playlist included.
sharedEntry(m, rows) ==
    [messageId |-> m.id, messageContent |-> m.content, sharedAt |-> m.createdAt,
     sharedBy |-> m.fromId,
     playlist |-> IF \E p \in rows : p.id = m.playlistId
                  THEN sharedPlaylistOf(CHOOSE p \in rows : p.id = m.playlistId)
                  ELSE NoSharedPlaylist]

\* The getSharedPlaylists handler as a whole.
getSharedPlaylists(userId) ==
    /\ nreq < MaxRequests
    /\ nreq' = nreq + 1
    /\ LET list == orderByCreatedAtDesc(sharedMessages(messages, userId))
       IN  res' = [NoRes EXCEPT !.op = "getSharedPlaylists", !.user = userId,
                                !.status = 200,
                                !.sharedPlaylists =
                                    [i \in 1..Len(list) |->
                                        sharedEntry(list[i], playlists)]]
    /\ expoCalls' = <<>>
    /\ UNCHANGED <<pushTokens, playlists, messages, follows, reqs, clock>>

\* --------------------------------------------------------------- messages
\* title and body of sendMessageNotification; the body is kept as its parts.
AlwaysPlainRendering(senderName, messageContent, playlistId, playlistName) ==
    [title |-> "New Message", body |-> <<senderName, ": ", messageContent>>]

messageNotificationContent(senderName, messageContent, playlistId, playlistName) ==
    IF playlistId # 0 /\ playlistName # ""
    THEN [title |-> "New Playlist Shared",
          body |-> <<senderName, " shared \"", playlistName, "\" with you">>]
    ELSE [title |-> "New Message", body |-> <<senderName, ": ", messageContent>>]

MsgRes(q, status, error) ==
    [NoRes EXCEPT !.op = "sendMessage", !.user = q.user, !.target = q.target,
                  !.playlistId = q.playlistId, !.rowId = q.rowId,
                  !.status = status, !.error = error]

SendMessageAllowsViewers(s, userId, toUserId, content, playlistId) ==
    /\ CanStart(s)
    /\ nreq' = nreq + 1
    /\ LET q == [IdleReq EXCEPT !.op = "sendMessage", !.user = userId,
                                !.target = toUserId, !.playlistId = playlistId]
       IN  IF toUserId = "" \/ content = ""
           THEN Respond(s, MsgRes(q, 400, "Invalid message data"))
           ELSE IF toUserId \notin Users
           THEN Respond(s, MsgRes(q, 404, "Recipient not found"))
           ELSE IF /\ playlistId # 0
                   /\ ~\E p \in playlists : p.id = playlistId /\ p.userId = userId
                   /\ ~\E m \in messages : m.toId = userId /\ m.playlistId = playlistId
           THEN Respond(s, MsgRes(q, 404, "Playlist not found or unauthorized"))
           ELSE IF playlistId # 0
           THEN Continue(s, [q EXCEPT !.pc = "name"])
           ELSE Continue(s, [q EXCEPT !.pc = "create"])
    /\ expoCalls' = <<>>
    /\ UNCHANGED <<pushTokens, playlists, messages, follows, clock>>

\* POST /messages up to the insert: validation, recipient lookup, playlist
\* ownership check.
sendMessage(s, userId, toUserId, content, playlistId) ==
    /\ CanStart(s)
    /\ nreq' = nreq + 1
    /\ LET q == [IdleReq EXCEPT !.op = "sendMessage", !.user = userId,
                                !.target = toUserId, !.playlistId = playlistId]
       IN  IF toUserId = "" \/ content = ""
           THEN Respond(s, MsgRes(q, 400, "Invalid message data"))
           ELSE IF toUserId \notin Users
           THEN Respond(s, MsgRes(q, 404, "Recipient not found"))
           ELSE IF /\ playlistId # 0
                   /\ ~\E p \in playlists : p.id = playlistId /\ p.userId = userId
           THEN Respond(s, MsgRes(q, 404, "Playlist not found or unauthorized"))
           ELSE IF playlistId # 0
           THEN Continue(s, [q EXCEPT !.pc = "name"])
           ELSE Continue(s, [q EXCEPT !.pc = "create"])
    /\ expoCalls' = <<>>
    /\ UNCHANGED <<pushTokens, playlists, messages, follows, clock>>

\* prisma.playlist.findUnique({ where: { id: playlistId }, select: { name } }):
\* playlistName = playlist?.name, "" standing for undefined.
sendMessage_name(s) ==
    /\ reqs[s].op = "sendMessage" /\ reqs[s].pc = "name"
    /\ LET q == reqs[s]
           found == {p \in playlists : p.id = q.playlistId}
       IN  IF found = {}
           THEN Continue(s, [q EXCEPT !.pc = "create", !.playlistName = ""])
           ELSE \E p \in found :
                    Continue(s, [q EXCEPT !.pc = "create", !.playlistName = p.name])
    /\ expoCalls' = <<>>
    /\ UNCHANGED <<pushTokens, playlists, messages, follows, clock, nreq>>

\* prisma.message.create(...); the foreign key on playlistId fails the insert
\* when the playlist is gone, and the outer catch passes the error on.
sendMessage_create(s) ==
    /\ reqs[s].op = "sendMessage" /\ reqs[s].pc = "create"
    /\ LET q == reqs[s]
           row == [id |-> clock + 1, fromId |-> q.user, toId |-> q.target,
                   playlistId |-> q.playlistId, content |-> "hi",
                   createdAt |-> clock + 1, isRead |-> FALSE, readAt |-> 0]
       IN  IF q.playlistId # 0 /\ ~\E p \in playlists : p.id = q.playlistId
           THEN /\ Respond(s, MsgRes(q, 500, "P2003"))
                /\ UNCHANGED <<messages, clock>>
           ELSE /\ messages' = messages \cup {row}
                /\ clock' = clock + 1
                /\ Continue(s, [q EXCEPT !.pc = "notify", !.rowId = row.id])
    /\ expoCalls' = <<>>
    /\ UNCHANGED <<pushTokens, playlists, follows, nreq>>

\* The notification step and res.json({ success: true, message }).  The
\* sender's name is the user id; title and body are those of the messages
\* handed to sendPushNotification, if any.
sendMessage_notify(s, lookupThrows, provider) ==
    /\ reqs[s].op = "sendMessage" /\ reqs[s].pc = "notify"
    /\ LET q == reqs[s]
           n == sendMessageNotification(pushTokens, q.target, lookupThrows, provider)
           status == statusAfterNotification(n.outcome)
           c == messageNotificationContent(q.user, "hi", q.playlistId, q.playlistName)
       IN  /\ Respond(s, [MsgRes(q, status, IF status = 200 THEN "" ELSE "threw")
                            EXCEPT !.notif = n.outcome, !.tokens = n.tokens,
                                   !.tickets = n.tickets,
                                   !.title = IF n.outcome = "tickets"
                                             THEN c.title ELSE "",
                                   !.body = IF n.outcome = "tickets"
                                            THEN c.body ELSE <<>>])
           /\ expoCalls' = n.submitted
    /\ UNCHANGED <<pushTokens, playlists, messages, follows, clock, nreq>>

\* ------------------------------------------------------------ read state
\* prisma.message.count({ where: { toId: user.id, isRead: false } })
CountAllReceived(msgs, userId) ==
    Cardinality({m \in msgs : m.toId = userId})

countUnread(msgs, userId) ==
    Cardinality({m \in msgs : m.toId = userId /\ ~m.isRead})

\* GET /messages/unread-count: the whole handler.
getUnreadMessageCount(userId) ==
    /\ nreq < MaxRequests
    /\ nreq' = nreq + 1
    /\ res' = [NoRes EXCEPT !.op = "getUnreadMessageCount", !.user = userId,
                            !.status = 200, !.count = countUnread(messages, userId)]
    /\ expoCalls' = <<>>
    /\ UNCHANGED <<pushTokens, playlists, messages, follows, reqs, clock>>

\* data: { isRead: true, readAt: new Date() }
markRead(m, now) == [m EXCEPT !.isRead = TRUE, !.readAt = now]

ReadRes(q, status, error) ==
    [NoRes EXCEPT !.op = "markMessageAsRead", !.user = q.user, !.rowId = q.rowId,
                  !.status = status, !.error = error]

MarkReadIgnoresRecipient(s, userId, messageId) ==
    /\ CanStart(s)
    /\ nreq' = nreq + 1
    /\ LET q == [IdleReq EXCEPT !.op = "markMessageAsRead", !.user = userId,
                                !.rowId = messageId]
       IN  IF ~\E m \in messages : m.id = messageId
           THEN Respond(s, ReadRes(q, 404, "Message not found or unauthorized"))
           ELSE Continue(s, [q EXCEPT !.pc = "update"])
    /\ expoCalls' = <<>>
    /\ UNCHANGED <<pushTokens, playlists, messages, follows, clock>>

\* PATCH /messages/:messageId/read up to the result of
\* findFirst({ where: { id: messageId, toId: user.id } }).
markMessageAsRead(s, userId, messageId) ==
    /\ CanStart(s)
    /\ nreq' = nreq + 1
    /\ LET q == [IdleReq EXCEPT !.op = "markMessageAsRead", !.user = userId,
                                !.rowId = messageId]
       IN  IF ~\E m \in messages : m.id = messageId /\ m.toId = userId
           THEN Respond(s, ReadRes(q, 404, "Message not found or unauthorized"))
           ELSE Continue(s, [q EXCEPT !.pc = "update"])
    /\ expoCalls' = <<>>
    /\ UNCHANGED <<pushTokens, playlists, messages, follows, clock>>

\* prisma.message.update({ where: { id: messageId }, data: ... }); throws
\* when the row is gone (P2025), passed on to the error handler.
markMessageAsRead_update(s) ==
    /\ reqs[s].op = "markMessageAsRead" /\ reqs[s].pc = "update"
    /\ LET q == reqs[s]
           hit == {m \in messages : m.id = q.rowId}
       IN  IF hit = {}
           THEN /\ Respond(s, ReadRes(q, 500, "P2025"))
                /\ UNCHANGED <<messages, clock>>
           ELSE /\ messages' = (messages \ hit) \cup {markRead(m, clock + 1) : m \in hit}
                /\ clock' = clock + 1
                /\ Respond(s, ReadRes(q, 200, ""))
    /\ expoCalls' = <<>>
    /\ UNCHANGED <<pushTokens, playlists, follows, nreq>>

\* PATCH /messages/read-all: updateMany on the user's unread messages.
markAllMessagesAsRead(userId) ==
    /\ nreq < MaxRequests
    /\ nreq' = nreq + 1
    /\ messages' = {IF m.toId = userId /\ ~m.isRead THEN markRead(m, clock + 1) ELSE m :
                       m \in messages}
    /\ clock' = clock + 1
    /\ res' = [NoRes EXCEPT !.op = "markAllMessagesAsRead", !.user = userId,
                            !.status = 200]
    /\ expoCalls' = <<>>
    /\ UNCHANGED <<pushTokens, playlists, follows, reqs>>

\* ---------------------------------------------------------- conversations
\* deleteMany({ where: { OR: [{ fromId: user, toId: other },
\*                            { fromId: other, toId: user }] } })
OnlySentMessages(msgs, userId, otherId) ==
    {m \in msgs : m.fromId = userId /\ m.toId = otherId}

conversation(msgs, userId, otherId) ==
    {m \in msgs : \/ m.fromId = userId /\ m.toId = otherId
                  \/ m.fromId = otherId /\ m.toId = userId}

\* DELETE /conversations/:userId: the whole handler.
deleteConversation(userId, otherId) ==
    /\ nreq < MaxRequests
    /\ nreq' = nreq + 1
    /\ LET base == [NoRes EXCEPT !.op = "deleteConversation", !.user = userId,
                                 !.target = otherId]
           gone == conversation(messages, userId, otherId)
       IN  IF otherId = ""
           THEN /\ res' = [base EXCEPT !.status = 400, !.error = "User ID is required"]
                /\ UNCHANGED messages
           ELSE IF otherId \notin Users
           THEN /\ res' = [base EXCEPT !.status = 404, !.error = "User not found"]
                /\ UNCHANGED messages
           ELSE /\ res' = [base EXCEPT !.status = 200, !.count = Cardinality(gone)]
                /\ messages' = messages \ gone
    /\ expoCalls' = <<>>
    /\ UNCHANGED <<pushTokens, playlists, follows, reqs, clock>>

\* ---------------------------------------------------------------- follows
FollowRes(q, status, error) ==
    [NoRes EXCEPT !.op = "followUser", !.user = q.user, !.target = q.target,
                  !.rowId = q.rowId, !.status = status, !.error = error]

\* POST /:userId/follow up to the insert.
followUser(s, userId, targetUserId) ==
    /\ CanStart(s)
    /\ nreq' = nreq + 1
    /\ LET q == [IdleReq EXCEPT !.op = "followUser", !.user = userId,
                                !.target = targetUserId]
       IN  IF targetUserId = ""
           THEN Respond(s, FollowRes(q, 400, "User ID is required"))
           ELSE IF targetUserId = userId
           THEN Respond(s, FollowRes(q, 400, "Cannot follow yourself"))
           ELSE IF targetUserId \notin Users
           THEN Respond(s, FollowRes(q, 404, "User not found"))
           ELSE Continue(s, [q EXCEPT !.pc = "create"])
    /\ expoCalls' = <<>>
    /\ UNCHANGED <<pushTokens, playlists, messages, follows, clock>>

FollowCreateWithoutUnique(s) ==
    /\ reqs[s].op = "followUser" /\ reqs[s].pc = "create"
    /\ LET q == reqs[s]
           row == [id |-> clock + 1, followerId |-> q.user, followingId |-> q.target]
       IN  /\ follows' = follows \cup {row}
           /\ clock' = clock + 1
           /\ Continue(s, [q EXCEPT !.pc = "notify", !.rowId = row.id])
    /\ expoCalls' = <<>>
    /\ UNCHANGED <<pushTokens, playlists, messages, nreq>>

FollowDuplicateStillNotifies(s) ==
    /\ reqs[s].op = "followUser" /\ reqs[s].pc = "create"
    /\ LET q == reqs[s]
           row == [id |-> clock + 1, followerId |-> q.user, followingId |-> q.target]
       IN  IF \E f \in follows : f.followerId = q.user /\ f.followingId = q.target
           THEN /\ Continue(s, [q EXCEPT !.pc = "notify"])
                /\ UNCHANGED <<follows, clock>>
           ELSE /\ follows' = follows \cup {row}
                /\ clock' = clock + 1
                /\ Continue(s, [q EXCEPT !.pc = "notify", !.rowId = row.id])
    /\ expoCalls' = <<>>
    /\ UNCHANGED <<pushTokens, playlists, messages, nreq>>

\* prisma.follow.create(...); @@unique([followerId, followingId]) makes a
\* second insert throw P2002, answered as "Already following".
followUser_create(s) ==
    /\ reqs[s].op = "followUser" /\ reqs[s].pc = "create"
    /\ LET q == reqs[s]
           row == [id |-> clock + 1, followerId |-> q.user, followingId |-> q.target]
       IN  IF \E f \in follows : f.followerId = q.user /\ f.followingId = q.target
           THEN /\ Respond(s, FollowRes(q, 200, "P2002"))
                /\ UNCHANGED <<follows, clock>>
           ELSE /\ follows' = follows \cup {row}
                /\ clock' = clock + 1
                /\ Continue(s, [q EXCEPT !.pc = "notify", !.rowId = row.id])
    /\ expoCalls' = <<>>
    /\ UNCHANGED <<pushTokens, playlists, messages, nreq>>

\* The notification step and res.json({ success: true, ... }).
followUser_notify(s, lookupThrows, provider) ==
    /\ reqs[s].op = "followUser" /\ reqs[s].pc = "notify"
    /\ LET q == reqs[s]
           n == sendFollowNotification(pushTokens, q.target, lookupThrows, provider)
           status == statusAfterNotification(n.outcome)
       IN  /\ Respond(s, [FollowRes(q, status, IF status = 200 THEN "" ELSE "threw")
                            EXCEPT !.notif = n.outcome, !.tokens = n.tokens,
                                   !.tickets = n.tickets])
           /\ expoCalls' = n.submitted
    /\ UNCHANGED <<pushTokens, playlists, messages, follows, clock, nreq>>

\* Races are explored on one user's devices.
RaceUsers == {"u1"}
RegisterInputs ==
    ({"u1", "u2"} \X WellFormed \X Platforms)
        \cup {<<"u1", "", "ios">>, <<"u1", "ExponentPushToken[a]", "">>,
              <<"u1", "ExponentPushToken[a]", "web">>}

RegisterSteps(s) ==
    \/ registerPushToken_update(s)
    \/ registerPushToken_create(s)
    \/ registerPushToken_count(s)

\* Concurrent registerPushToken requests.
NextRegisterRace ==
    \E s \in Slots :
        \/ \E u \in RaceUsers, t \in WellFormed, p \in Platforms :
               registerPushToken(s, u, t, p)
        \/ RegisterSteps(s)

SpecRegisterRace == Init /\ [][NextRegisterRace]_vars

\* One request at a time: a request starts when no other is in flight.
NextTokensSeq ==
    \E s \in Slots :
        \/ NoneInFlight /\ \E in \in RegisterInputs :
               registerPushToken(s, in[1], in[2], in[3])
        \/ NoneInFlight /\ \E u \in {"u1", "u2"}, id \in 1..MaxRequests :
               deletePushToken(s, u, id)
        \/ RegisterSteps(s)
        \/ deletePushToken_delete(s)

SpecTokensSeq == Init /\ [][NextTokensSeq]_vars

\* Playlists shared by message, one request at a time.  The first two ids
\* are asked for; the provider accepts whatever it is sent.
SharedIds == {1, 2}
SendMessageInputs ==
    {in \in {"u1", "u2"} \X {"u2", "u3", NoUser} \X {"hi", ""} \X ({0} \cup SharedIds) :
        /\ in[3] = "" => (in[2] = "u2" /\ in[4] = 0)
        /\ in[2] = NoUser => in[4] = 0}
ProviderAccepts == [i \in 1..MaxChunks |-> "ok"]

NextShare ==
    \/ NoneInFlight /\ \E u \in {"u1", "u2"}, name \in {"Roadtrip", ""} :
           createPlaylist(u, name)
    \/ NoneInFlight /\ \E u \in Users, id \in SharedIds :
           getSharedPlaylist(u, id)
    \/ \E s \in Slots :
        \/ NoneInFlight /\ \E in \in SendMessageInputs :
               sendMessage(s, in[1], in[2], in[3], in[4])
        \/ sendMessage_name(s)
        \/ sendMessage_create(s)
        \/ \E lookupThrows \in BOOLEAN :
               sendMessage_notify(s, lookupThrows, ProviderAccepts)

SpecShare == Init /\ [][NextShare]_vars

\* Business actions and their notifications, one request at a time.
NotifyRegisterInputs == {"u2"} \X (WellFormed \cup {Malformed}) \X {"ios"}

NotifyMessageInputs ==
    ({"u1", "u2"} \X {"u1", "u2", NoUser} \X {"hi"} \X {0})
        \cup {<<"u1", "u2", "", 0>>, <<"u1", "u2", "hi", 1>>}
NotifyFollowInputs ==
    ({"u1", "u2"} \X {"u1", "u2", NoUser}) \cup {<<"u1", "">>}

NextNotify ==
    \/ NoneInFlight /\ \E t \in Users \cup {NoUser}, title \in {"Hello", ""},
                          lookupThrows \in BOOLEAN, provider \in ProviderBehaviours :
           sendNotification("u1", t, title, lookupThrows, provider)
    \/ \E s \in Slots :
        \/ NoneInFlight /\ \E in \in NotifyRegisterInputs :
               registerPushToken(s, in[1], in[2], in[3])
        \/ RegisterSteps(s)
        \/ NoneInFlight /\ \E in \in NotifyMessageInputs :
               sendMessage(s, in[1], in[2], in[3], in[4])
        \/ sendMessage_create(s)
        \/ \E lookupThrows \in BOOLEAN, provider \in ProviderBehaviours :
               sendMessage_notify(s, lookupThrows, provider)
        \/ NoneInFlight /\ \E in \in NotifyFollowInputs :
               followUser(s, in[1], in[2])
        \/ followUser_create(s)
        \/ \E lookupThrows \in BOOLEAN, provider \in ProviderBehaviours :
               followUser_notify(s, lookupThrows, provider)

SpecNotify == Init /\ [][NextNotify]_vars

\* Notifications to a list of users, one request at a time.
MaxTargets == 2
TargetLists == UNION {[1..n -> {"u1", "u2", NoUser}] : n \in 0..MaxTargets}
\* At most one iteration of a request meets a throwing lookup.
FaultPatterns(targets) ==
    {f \in [1..Len(targets) -> BOOLEAN] :
        \A i \in 1..Len(targets), j \in 1..Len(targets) : (f[i] /\ f[j]) => i = j}
MultiProviders == {[i \in 1..MaxChunks |-> o] : o \in {"ok", "throw"}}
MultiRegisterInputs == {<<"u1", "ExponentPushToken[a]", "ios">>,
                        <<"u2", "ExponentPushToken[b]", "ios">>}

NextMulti ==
    \/ NoneInFlight /\ \E targets \in TargetLists, provider \in MultiProviders :
           \E faults \in FaultPatterns(targets) :
               sendNotificationToMultiple("u3", targets, "Hello", faults, provider)
    \/ NoneInFlight /\ sendNotificationToMultiple("u3", <<"u1">>, "", <<FALSE>>,
                                                  ProviderAccepts)
    \/ \E s \in Slots :
        \/ NoneInFlight /\ \E in \in MultiRegisterInputs :
               registerPushToken(s, in[1], in[2], in[3])
        \/ RegisterSteps(s)

SpecMulti == Init /\ [][NextMulti]_vars

\* Shared playlists listed, changed and deleted, one request at a time; u1
\* and u2 own and share, all three users read.
ListOwners == {"u1", "u2"}
ListSongs == {"s1", "s2"}
ListIds == 1..MaxRequests

NextList ==
    \/ NoneInFlight /\ \E u \in ListOwners : createPlaylist(u, "Roadtrip")
    \/ NoneInFlight /\ \E u \in ListOwners, id \in ListIds, v \in ListSongs :
           addSongToPlaylist(u, id, v)
    \/ NoneInFlight /\ addSongToPlaylist("u1", 1, "")
    \/ NoneInFlight /\ \E u \in ListOwners, id \in ListIds : deletePlaylist(u, id)
    \/ NoneInFlight /\ \E u \in Users : getSharedPlaylists(u)
    \/ NoneInFlight /\ \E u \in Users, id \in ListIds : getSharedPlaylist(u, id)
    \/ \E s \in Slots :
        \/ NoneInFlight /\ \E u \in ListOwners, id \in {0} \cup ListIds :
               sendMessage(s, u, "u2", "hi", id)
        \/ sendMessage_name(s)
        \/ sendMessage_create(s)
        \/ sendMessage_notify(s, FALSE, ProviderAccepts)

SpecList == Init /\ [][NextList]_vars

\* Messages with and without a playlist to a recipient with a device, while
\* the sender's playlists are created and deleted concurrently.
RenderIds == {0, 1, 2}

NextRender ==
    \/ createPlaylist("u1", "Roadtrip")
    \/ \E id \in RenderIds \ {0} : deletePlaylist("u1", id)
    \/ \E s \in Slots :
        \/ registerPushToken(s, "u2", "ExponentPushToken[a]", "ios")
        \/ RegisterSteps(s)
        \/ \E id \in RenderIds : sendMessage(s, "u1", "u2", "hi", id)
        \/ sendMessage_name(s)
        \/ sendMessage_create(s)
        \/ \E lookupThrows \in BOOLEAN :
               sendMessage_notify(s, lookupThrows, ProviderAccepts)

SpecRender == Init /\ [][NextRender]_vars

\* Like and comment notifications between two users with devices, one call
\* at a time.
OwnerUsers == {"u1", "u2"}

NextOwner ==
    \/ NoneInFlight /\ \E a \in OwnerUsers, o \in OwnerUsers, lookupThrows \in BOOLEAN,
                          provider \in MultiProviders :
           callSendPlaylistLikeNotification(a, o, lookupThrows, provider)
    \/ NoneInFlight /\ \E a \in OwnerUsers, o \in OwnerUsers, lookupThrows \in BOOLEAN,
                          provider \in MultiProviders :
           callSendPlaylistCommentNotification(a, o, lookupThrows, provider)
    \/ \E s \in Slots :
        \/ NoneInFlight /\ \E in \in MultiRegisterInputs :
               registerPushToken(s, in[1], in[2], in[3])
        \/ RegisterSteps(s)

SpecOwner == Init /\ [][NextOwner]_vars

\* Messages between two users and their read state, one request at a time.
ReadUsers == {"u1", "u2"}
ReadIds == 1..MaxRequests

NextRead ==
    \/ NoneInFlight /\ \E u \in ReadUsers : getUnreadMessageCount(u)
    \/ NoneInFlight /\ \E u \in ReadUsers : markAllMessagesAsRead(u)
    \/ \E s \in Slots :
        \/ NoneInFlight /\ \E u \in ReadUsers, id \in ReadIds :
               markMessageAsRead(s, u, id)
        \/ markMessageAsRead_update(s)
        \/ NoneInFlight /\ \E u \in ReadUsers, v \in ReadUsers :
               sendMessage(s, u, v, "hi", 0)
        \/ sendMessage_create(s)
        \/ sendMessage_notify(s, FALSE, ProviderAccepts)

SpecRead == Init /\ [][NextRead]_vars

\* The owner u1 and the recipient u2 of a shared playlist both try to change
\* it, one request at a time.
EditUsers == {"u1", "u2"}
EditIds == {1, 2}

NextEdit ==
    \/ NoneInFlight /\ createPlaylist("u1", "Roadtrip")
    \/ NoneInFlight /\ \E u \in EditUsers, id \in EditIds, name \in {"Summer", ""} :
           updatePlaylist(u, id, name)
    \/ NoneInFlight /\ \E u \in EditUsers, id \in EditIds : deletePlaylist(u, id)
    \/ NoneInFlight /\ \E u \in EditUsers, id \in EditIds, v \in {"s1", ""} :
           addSongToPlaylist(u, id, v)
    \/ NoneInFlight /\ \E u \in EditUsers, id \in EditIds :
           removeSongFromPlaylist(u, id, "s1")
    \/ \E s \in Slots :
        \/ NoneInFlight /\ \E id \in EditIds : sendMessage(s, "u1", "u2", "hi", id)
        \/ sendMessage_name(s)
        \/ sendMessage_create(s)
        \/ sendMessage_notify(s, FALSE, ProviderAccepts)

SpecEdit == Init /\ [][NextEdit]_vars

\* One playlist of u1, created first, is sent to u2 and then revoked by
\* deleting the conversation or the playlist; u2 and u3 read.
RevokeReaders == {"u2", "u3"}
RevokeParties == {"u1", "u2", NoUser, ""}

NextRevoke ==
    \/ clock = 0 /\ createPlaylist("u1", "Roadtrip")
    \/ NoneInFlight /\ \E u \in {"u1", "u2"}, v \in RevokeParties : deleteConversation(u, v)
    \/ NoneInFlight /\ deletePlaylist("u1", 1)
    \/ NoneInFlight /\ \E u \in RevokeReaders : getSharedPlaylist(u, 1)
    \/ NoneInFlight /\ \E u \in RevokeReaders : getSharedPlaylists(u)
    \/ \E s \in Slots :
        \/ NoneInFlight /\ clock > 0 /\ sendMessage(s, "u1", "u2", "hi", 1)
        \/ sendMessage_name(s)
        \/ sendMessage_create(s)
        \/ sendMessage_notify(s, FALSE, ProviderAccepts)

SpecRevoke == Init /\ [][NextRevoke]_vars

\* Concurrent followUser requests of u1, for u2 and for u1 itself, while u2
\* registers a device.
FollowTargets == {"u2", "u1"}

NextFollowRace ==
    \E s \in Slots :
        \/ \E t \in FollowTargets : followUser(s, "u1", t)
        \/ followUser_create(s)
        \/ \E lookupThrows \in BOOLEAN :
               followUser_notify(s, lookupThrows, ProviderAccepts)
        \/ registerPushToken(s, "u2", "ExponentPushToken[a]", "ios")
        \/ RegisterSteps(s)

SpecFollowRace == Init /\ [][NextFollowRace]_vars

\* ------------------------------------------------------ playlists router
\* A path is the sequence of its segments; a route pattern is a sequence of
\* literal segments and named parameters.
Lit(name) == [param |-> FALSE, name |-> name]

Param(name) == [param |-> TRUE, name |-> name]

Route(method, pattern, handler) == [method |-> method, pattern |-> pattern, handler |-> handler]

\* The router.<method>(path, handler) calls, in registration order.
playlistRoutes ==
    << Route("POST", <<>>, "createPlaylist"),
       Route("GET", <<Param("playlistId")>>, "getSharedPlaylist"),
       Route("PATCH", <<Param("playlistId")>>, "updatePlaylist"),
       Route("DELETE", <<Param("playlistId")>>, "deletePlaylist"),
       Route("POST", <<Lit("add-song")>>, "addSongToPlaylist"),
       Route("DELETE", <<Param("playlistId"), Lit("songs"), Param("songId")>>,
             "removeSongFromPlaylist"),
       Route("GET", <<Param("playlistId"), Lit("songs"), Param("songId"), Lit("exists")>>,
             "checkSongInPlaylist"),
       Route("GET", <<Lit("shared")>>, "getSharedPlaylists"),
       Route("POST", <<Lit("songs"), Param("songId"), Lit("like")>>, "likeSong"),
       Route("DELETE", <<Lit("songs"), Param("songId"), Lit("like")>>, "unlikeSong"),
       Route("GET", <<Lit("songs"), Param("songId"), Lit("like")>>, "checkSongLike"),
       Route("GET", <<Lit("liked-songs")>>, "getLikedSongs") >>

\* A route takes a request of its method whose path has as many segments as
\* the pattern, each literal equal; a parameter takes any segment.
matchRoute(route, method, path) ==
    /\ route.method = method
    /\ Len(route.pattern) = Len(path)
    /\ \A i \in 1..Len(path) :
          route.pattern[i].param \/ route.pattern[i].name = path[i]

\* The handler of the first route, in registration order, that matches; ""
\* when none does.
dispatch(method, path) ==
    LET hits == {i \in 1..Len(playlistRoutes) : matchRoute(playlistRoutes[i], method, path)}
    IN  IF hits = {} THEN ""
        ELSE playlistRoutes[CHOOSE i \in hits : \A j \in hits : i <= j].handler

\* req.params.playlistId is the segment as it stands. Row ids are the
\* positive clock values, written "1", "2", ...; any other segment is a string
\* that is the id of no row.
paramId(segment) ==
    CASE segment = "1" -> 1
      [] segment = "2" -> 2
      [] segment = "shared" -> -1
      [] segment = "liked-songs" -> -2

RoutedHandlers == {"createPlaylist", "getSharedPlaylist", "getSharedPlaylists", "deletePlaylist"}

\* One authenticated request to the playlists router.
playlistsRouter(userId, method, path, name) ==
    LET handler == dispatch(method, path)
    IN  /\ handler \in RoutedHandlers
        /\ CASE handler = "createPlaylist" -> createPlaylist(userId, name)
             [] handler = "getSharedPlaylist" -> getSharedPlaylist(userId, paramId(path[1]))
             [] handler = "getSharedPlaylists" -> getSharedPlaylists(userId)
             [] handler = "deletePlaylist" -> deletePlaylist(userId, paramId(path[1]))

RouteUsers == {"u1", "u2"}

RouteRequests ==
    { <<"POST", <<>>>>, <<"GET", <<"1">>>>, <<"GET", <<"2">>>>, <<"GET", <<"shared">>>>,
      <<"GET", <<"liked-songs">>>>, <<"DELETE", <<"1">>>> }

\* Requests to the playlists router, while u1 shares playlist 1 with u2.
NextRoute ==
    \/ NoneInFlight /\ \E u \in RouteUsers, rq \in RouteRequests :
          playlistsRouter(u, rq[1], rq[2], "Roadtrip")
    \/ \E s \in Slots :
          \/ NoneInFlight /\ sendMessage(s, "u1", "u2", "hi", 1)
          \/ sendMessage_name(s)
          \/ sendMessage_create(s)
          \/ sendMessage_notify(s, FALSE, ProviderAccepts)

SpecRoute == Init /\ [][NextRoute]_vars

\* u2 registers and deletes devices and u1 registers one, while u1 follows
\* u2 and sends messages to u2; the requests interleave.
LogoutRegisterInputs == {<<"u2", "ExponentPushToken[a]">>,
                         <<"u2", "ExponentPushToken[b]">>,
                         <<"u1", "ExponentPushToken[b]">>}

NextLogout ==
    \E s \in Slots :
        \/ \E in \in LogoutRegisterInputs : registerPushToken(s, in[1], in[2], "ios")
        \/ RegisterSteps(s)
        \/ \E id \in 1..MaxRequests : deletePushToken(s, "u2", id)
        \/ deletePushToken_delete(s)
        \/ sendMessage(s, "u1", "u2", "hi", 0)
        \/ sendMessage_create(s)
        \/ sendMessage_notify(s, FALSE, ProviderAccepts)
        \/ followUser(s, "u1", "u2")
        \/ followUser_create(s)
        \/ followUser_notify(s, FALSE, ProviderAccepts)

SpecLogout == Init /\ [][NextLogout]_vars

\* ------------------------------------------------- claims: token registry
RowsOf(rows, userId, token) ==
    {r \in rows : r.userId = userId /\ r.token = token}

AtMostOneRowPerPair ==
    \A r1 \in pushTokens, r2 \in pushTokens :
        (r1.userId = r2.userId /\ r1.token = r2.token) => r1 = r2

\* A step in which the request of slot s wrote the row of its pair.
WroteRow(s) ==
    /\ reqs[s].op = "registerPushToken"
    /\ reqs[s].pc \in {"update", "create"}
    /\ reqs'[s].pc = "count"

\* Every change of the token table is the write of one registration, and it
\* leaves the row of that registration's pair with that registration's platform.
LastWriteWins ==
    pushTokens' # pushTokens =>
        \E s \in Slots :
            /\ WroteRow(s)
            /\ \A r \in pushTokens' :
                  IF r.userId = reqs[s].user /\ r.token = reqs[s].token
                  THEN r.platform = reqs[s].platform
                  ELSE r \in pushTokens

\* C3: for any interleaving of concurrent registerPushToken requests with the
\* same (userId, token), no pair ever has two rows, every such request that has
\* answered leaves exactly one row for its pair, and the row's platform is the
\* platform of the request that wrote it last.
C3_RacingRegistrationsConverge ==
    /\ [](AtMostOneRowPerPair)
    /\ []((res.op = "registerPushToken" /\ res.status \in {200, 500})
             => Cardinality(RowsOf(pushTokens, res.user, res.token)) = 1)
    /\ [][LastWriteWins]_vars

\* Two requests found no row for the pair and both inserted: the loser of the
\* race has answered and the pair has its single row.
C3_Witness ==
    /\ res.op = "registerPushToken"
    /\ res.error = "P2002"
    /\ Cardinality(RowsOf(pushTokens, res.user, res.token)) = 1

\* A row keeps its id and creation time for as long as its pair is
\* registered; it changes only by a registration of its pair, which sets the
\* platform and a later updatedAt; it disappears only by its owner's delete.
UpdatedInPlace ==
    \A r \in pushTokens :
        LET same == RowsOf(pushTokens', r.userId, r.token)
        IN  IF same = {}
            THEN \E s \in Slots :
                    /\ reqs[s].op = "deletePushToken"
                    /\ reqs[s].tokenId = r.id /\ reqs[s].user = r.userId
            ELSE \A x \in same :
                    /\ x.id = r.id /\ x.createdAt = r.createdAt
                    /\ x # r => \E s \in Slots :
                           /\ WroteRow(s)
                           /\ reqs[s].user = r.userId /\ reqs[s].token = r.token
                           /\ x.platform = reqs[s].platform
                           /\ x.updatedAt > r.updatedAt

\* C4: with one request at a time, no (userId, token) pair has two rows; a
\* registration of a pair that has a row updates that row in place; and when a
\* registration answers, the stored platform is the one it carried.
C4_ReRegistrationUpdatesInPlace ==
    /\ [](AtMostOneRowPerPair)
    /\ []((res.op = "registerPushToken" /\ res.status = 200)
             => \E r \in pushTokens :
                    /\ RowsOf(pushTokens, res.user, res.token) = {r}
                    /\ r.platform = res.platform)
    /\ [][UpdatedInPlace]_vars

\* A pair was registered again, with the other platform: its row kept its id
\* and now carries the new platform.
C4_Witness ==
    /\ res.op = "registerPushToken" /\ res.status = 200
    /\ res.tokenId # 0
    /\ \E r \in pushTokens :
          /\ r.id = res.tokenId
          /\ r.userId = res.user /\ r.token = res.token
          /\ r.platform = res.platform
          /\ r.createdAt < r.updatedAt
          /\ res.platform = "android"
    /\ Cardinality(pushTokens) = 2

\* C5: a registration whose insert hits the uniqueness violation answers with
\* success.
C5_UniqueViolationAnswersSuccess ==
    (res.op = "registerPushToken" /\ res.error = "P2002") => res.status = 200

\* ------------------------------------------------------ claims: fan-out
\* The batches formed from the token list of the latest call.
FormedChunks == chunkPushNotifications(buildMessages(res.tokens))

SomeBatchThrew == \E i \in 1..Len(res.provider) : res.provider[i] = "throw"

\* C7: in a call of sendPushNotification in which the submission of a batch
\* throws, every batch formed is still submitted, in order, and the call
\* returns normally.
C7_FailedBatchDoesNotAbort ==
    (res.op = "sendPushNotification" /\ SomeBatchThrew)
        => (expoCalls = FormedChunks /\ res.error = "")

\* The first of two batches threw and the second was submitted.
C7_Witness ==
    /\ res.op = "sendPushNotification"
    /\ Len(res.provider) >= 2
    /\ res.provider[1] = "throw"
    /\ res.provider[2] = "ok"
    /\ Len(expoCalls) >= 2
    /\ res.error = ""

RECURSIVE SumLen(_)
SumLen(seqs) == IF seqs = <<>> THEN 0 ELSE Len(Head(seqs)) + SumLen(Tail(seqs))

\* C8: the report returned by a call holds one entry per attempted token,
\* also when the submission of a batch fails.
C8_OneEntryPerAttemptedToken ==
    res.op = "sendPushNotification" => Len(res.tickets) = SumLen(expoCalls)

Count(seq, x) == Cardinality({i \in 1..Len(seq) : seq[i] = x})

RECURSIVE Flatten(_)
Flatten(seqs) == IF seqs = <<>> THEN <<>> ELSE Head(seqs) \o Flatten(Tail(seqs))

\* C9: a malformed token of the list is never submitted and has an
\* invalid_token entry in the report; every well-formed token is submitted
\* once per occurrence in the list.
C9_MalformedRecordedInvalid ==
    res.op = "sendPushNotification" =>
        /\ Count(Flatten(expoCalls), Malformed) = 0
        /\ Count([i \in 1..Len(res.tickets) |-> res.tickets[i].status], "invalid_token")
              = Count(res.tokens, Malformed)
        /\ \A t \in WellFormed : Count(Flatten(expoCalls), t) = Count(res.tokens, t)

\* ---------------------------------------------- claims: shared playlists
Owns(userId, playlistId) ==
    \E p \in playlists : p.id = playlistId /\ p.userId = userId

IsRecipient(userId, playlistId) ==
    \E m \in messages : m.toId = userId /\ m.playlistId = playlistId

\* C1: getSharedPlaylist answers 404 "not found or unauthorized", without any
\* playlist contents, to every viewer who neither owns the playlist nor is the
\* recipient of a message carrying it.
C1_StrangerGetsNotFound ==
    (/\ res.op = "getSharedPlaylist"
     /\ ~Owns(res.user, res.playlistId)
     /\ ~IsRecipient(res.user, res.playlistId))
        => (res.status = 404 /\ res.playlist = NoPlaylist)

\* The playlist exists and was shared with someone else; a third user asked.
C1_Witness ==
    /\ res.op = "getSharedPlaylist"
    /\ \E p \in playlists : p.id = res.playlistId /\ p.userId # res.user
    /\ \E m \in messages : m.playlistId = res.playlistId /\ m.toId # res.user
    /\ ~IsRecipient(res.user, res.playlistId)
    /\ res.status = 404

\* C2: getSharedPlaylist returns the playlist to its owner, also when no
\* message references it, and to every recipient of a message carrying it.
C2_OwnerAndRecipientsSee ==
    (/\ res.op = "getSharedPlaylist"
     /\ \/ Owns(res.user, res.playlistId)
        \/ IsRecipient(res.user, res.playlistId))
        => (/\ res.status = 200
            /\ res.playlist \in playlists
            /\ res.playlist.id = res.playlistId)

\* A recipient who does not own the playlist got it.
C2_Witness ==
    /\ res.op = "getSharedPlaylist"
    /\ ~Owns(res.user, res.playlistId)
    /\ IsRecipient(res.user, res.playlistId)
    /\ res.status = 200
    /\ res.playlist.id = res.playlistId

\* ------------------------------------------- claims: business actions
\* C6: once sendMessage or followUser has inserted its row, it answers with
\* success and the row stays, whatever the notification step did.
C6_PrimaryWriteIndependentOfDelivery ==
    (res.op \in {"sendMessage", "followUser"} /\ res.rowId # 0)
        => /\ res.status = 200
           /\ res.op = "sendMessage" => \E m \in messages : m.id = res.rowId
           /\ res.op = "followUser" => \E f \in follows : f.id = res.rowId

\* The notification of a sent message threw; the request answered 200.
C6_Witness ==
    /\ res.op = "sendMessage" /\ res.rowId # 0
    /\ res.notif = "threw"
    /\ res.status = 200
    /\ \E m \in messages : m.id = res.rowId

\* C10: a notification for a user without registered tokens is no failure:
\* the caller gets a success.
C10_NoTokensIsNotAnError ==
    res.notif = "nothing" => (res.status = 200 /\ res.error = "")

\* C11: every batch sendPushNotification submits holds at most ChunkLimit
\* messages, and the batches together hold one message per occurrence of a
\* well-formed token of the list and nothing else.
C11_BatchesBoundedAndComplete ==
    res.op = "sendPushNotification" =>
        /\ \A i \in 1..Len(expoCalls) :
              Len(expoCalls[i]) >= 1 /\ Len(expoCalls[i]) <= ChunkLimit
        /\ \A t \in WellFormed : Count(Flatten(expoCalls), t) = Count(res.tokens, t)
        /\ SumLen(expoCalls) = Len(res.tokens) - Count(res.tokens, Malformed)

\* More well-formed tokens than one batch holds: a full batch and a rest.
C11_Witness ==
    /\ res.op = "sendPushNotification"
    /\ Len(res.tokens) - Count(res.tokens, Malformed) > ChunkLimit
    /\ Count(res.tokens, Malformed) >= 1
    /\ Len(expoCalls) >= 2
    /\ Len(expoCalls[1]) = ChunkLimit

\* ------------------------------------------- claims: order of the fan-out
BusinessOps == {"sendMessage", "followUser"}

\* C12: the response of followUser and sendMessage is not held back by the
\* notification fan-out: no request whose row is written stays unanswered
\* while the token lookup and the provider submissions are still to run.
C12_ResponseNotBlockedByFanout ==
    \A s \in Slots :
        (reqs[s].op \in BusinessOps /\ reqs[s].rowId # 0) => reqs[s].pc # "notify"

\* The row a successful business response speaks of is in the store.
RowPersisted ==
    IF res.op = "sendMessage"
    THEN \E m \in messages :
            m.id = res.rowId /\ m.fromId = res.user /\ m.toId = res.target
    ELSE \E f \in follows :
            f.id = res.rowId /\ f.followerId = res.user /\ f.followingId = res.target

\* C13: a follow or message notification reaches the provider only once the
\* Follow or Message row is persisted; a rejected request or a failed write
\* submits nothing.
C13_SubmissionOnlyAfterPersist ==
    /\ (res.op \in BusinessOps /\ expoCalls # <<>>) =>
           (res.rowId # 0 /\ RowPersisted)
    /\ (res.op \in BusinessOps /\ (res.status # 200 \/ res.rowId = 0)) =>
           expoCalls = <<>>
    /\ \A s \in Slots :
           (reqs[s].op \in BusinessOps /\ reqs[s].pc # "notify") => expoCalls = <<>>

\* A repeated follow of a recipient with a device is answered without a
\* submission, after the first follow was notified.
C13_Witness ==
    /\ res.op = "followUser" /\ res.error = "P2002" /\ expoCalls = <<>>
    /\ \E r \in pushTokens : r.userId = res.target /\ isExpoPushToken(r.token)

\* ------------------------------------------ claims: several target users
MultiDone == res.op = "sendNotificationToMultiple" /\ res.status = 200

\* The i-th target can be notified: a known user with a token row whose
\* lookups do not throw.
Deliverable(i) ==
    /\ ~res.faults[i]
    /\ res.targets[i] \in Users
    /\ \E r \in pushTokens : r.userId = res.targets[i]

UserIdsOf(list) == [i \in 1..Len(list) |-> list[i].userId]

\* C14: the failure of one target (unknown user, no tokens, a throwing
\* lookup) never keeps another target from being attempted: every target is
\* processed, and each deliverable one has its result and its submissions.
C14_FailureDoesNotStopOtherTargets ==
    MultiDone =>
        /\ \A u \in Users \cup {NoUser} :
              Count(UserIdsOf(res.results), u)
                  = Cardinality({i \in 1..Len(res.targets) :
                                    res.targets[i] = u /\ Deliverable(i)})
        /\ Len(res.results) + Len(res.errors) = Len(res.targets)
        /\ SumLen(expoCalls)
              = SumLen([i \in 1..Len(res.results) |->
                           buildMessages(findManyTokens(pushTokens,
                                                        res.results[i].userId))])

\* A target that fails is followed by one that is notified.
C14_Witness ==
    /\ MultiDone
    /\ \E i \in 1..Len(res.targets), j \in 1..Len(res.targets) :
          i < j /\ ~Deliverable(i) /\ Deliverable(j)
    /\ expoCalls # <<>>

\* C15: the report puts every processed target in exactly one of results and
\* errors, so successful + failed = total.
C15_ReportPartitionsTargets ==
    MultiDone =>
        /\ res.total = Len(res.targets)
        /\ res.successful = Len(res.results)
        /\ res.failed = Len(res.errors)
        /\ res.successful + res.failed = res.total
        /\ \A u \in Users \cup {NoUser} :
              Count(UserIdsOf(res.results), u) + Count(UserIdsOf(res.errors), u)
                  = Count(res.targets, u)

\* A report with both a result and an error, one of them an unknown user.
C15_Witness ==
    /\ MultiDone
    /\ res.successful >= 1 /\ res.failed >= 1
    /\ \E i \in 1..Len(res.targets) : res.targets[i] = NoUser

\* ------------------------------------------- claims: existence is hidden
PlaylistExists(playlistId) == \E p \in playlists : p.id = playlistId

NoRightToSee(userId, playlistId) ==
    ~Owns(userId, playlistId) /\ ~IsRecipient(userId, playlistId)

\* What the caller of getSharedPlaylist can observe of the response.
ObservableResponse == <<res.status, res.error, res.playlist>>

\* C16: for one viewer, getSharedPlaylist on an existing playlist the viewer
\* has no right to see and on an id that does not exist give the same
\* response: both are the one response that says nothing about existence.
C16_ExistenceNotRevealed ==
    (/\ res.op = "getSharedPlaylist"
     /\ \/ PlaylistExists(res.playlistId) /\ NoRightToSee(res.user, res.playlistId)
        \/ ~PlaylistExists(res.playlistId))
        => ObservableResponse
               = <<404, "Playlist not found or unauthorized", NoPlaylist>>

\* The viewer asked for an existing playlist of somebody else while another
\* id of the same request set does not exist.
C16_Witness ==
    /\ res.op = "getSharedPlaylist" /\ res.status = 404
    /\ PlaylistExists(res.playlistId)
    /\ NoRightToSee(res.user, res.playlistId)
    /\ \E id \in SharedIds : ~PlaylistExists(id)

\* ------------------------------------------ claims: the list of shares
ListDone == res.op = "getSharedPlaylists" /\ res.status = 200

\* The messages to the reader that carry a playlist.
Qualifying == {m \in messages : m.toId = res.user /\ m.playlistId # 0}

EntriesOf(m) ==
    {i \in 1..Len(res.sharedPlaylists) : res.sharedPlaylists[i].messageId = m.id}

\* C17: getSharedPlaylists(u) has exactly one entry for each message to u
\* with a playlist and no other entry, newest message first; two messages
\* with the same playlist give two entries.
C17_OneEntryPerSharingMessage ==
    ListDone =>
        /\ \A m \in Qualifying : Cardinality(EntriesOf(m)) = 1
        /\ Len(res.sharedPlaylists) = Cardinality(Qualifying)
        /\ \A i \in 1..Len(res.sharedPlaylists) :
              \E m \in Qualifying :
                  /\ res.sharedPlaylists[i].messageId = m.id
                  /\ res.sharedPlaylists[i].playlist.id = m.playlistId
        /\ \A i \in 1..Len(res.sharedPlaylists), j \in 1..Len(res.sharedPlaylists) :
              i < j => res.sharedPlaylists[i].sharedAt >= res.sharedPlaylists[j].sharedAt

\* Two messages to the reader carry the same playlist.
C17_Witness ==
    /\ ListDone
    /\ \E m1 \in Qualifying, m2 \in Qualifying :
          m1.id # m2.id /\ m1.playlistId = m2.playlistId
    /\ Len(res.sharedPlaylists) >= 2

\* C18: once A has sent B a message with A's playlist P, every later
\* getSharedPlaylists(B) has an entry of that message with the songs P has
\* now, and getSharedPlaylist(B, P) shows P, while message and playlist exist.
C18_ShareStaysVisibleWithCurrentSongs ==
    /\ ListDone =>
          \A m \in Qualifying : \A p \in playlists :
              (p.id = m.playlistId /\ p.userId = m.fromId) =>
                  \E i \in EntriesOf(m) :
                      /\ res.sharedPlaylists[i].playlist.id = p.id
                      /\ res.sharedPlaylists[i].playlist.songCount = Len(p.songs)
                      /\ res.sharedPlaylists[i].playlist.songs
                            = [k \in 1..Len(p.songs) |-> p.songs[k].songId]
    /\ (res.op = "getSharedPlaylist" /\ res.status # 0) =>
          \A m \in Qualifying : \A p \in playlists :
              (p.id = m.playlistId /\ p.userId = m.fromId /\ p.id = res.playlistId)
                  => (res.status = 200 /\ res.playlist = p)

\* The list shows a song that was added after the message was sent.
C18_Witness ==
    /\ ListDone
    /\ \E m \in Qualifying : \E p \in playlists :
          /\ p.id = m.playlistId /\ p.userId = m.fromId
          /\ \E k \in 1..Len(p.songs) : p.songs[k].createdAt > m.createdAt
          /\ \E i \in EntriesOf(m) : res.sharedPlaylists[i].playlist.songCount >= 1

\* --------------------------------------- claims: the message notification
MessageNotified == res.op = "sendMessage" /\ res.notif = "tickets"

\* C19: the notification of a message is the share rendering exactly when
\* the message was sent with a playlistId, and the plain rendering exactly
\* when it was not.
C19_ShareRenderingIffPlaylistId ==
    MessageNotified =>
        /\ res.playlistId # 0 <=> res.title = "New Playlist Shared"
        /\ res.playlistId = 0 <=> res.title = "New Message"
        /\ res.playlistId # 0 =>
              /\ Len(res.body) = 4
              /\ res.body[1] = res.user /\ res.body[2] = " shared \""
              /\ res.body[3] # "" /\ res.body[4] = "\" with you"
        /\ res.playlistId = 0 => res.body = <<res.user, ": ", "hi">>

\* A message with a playlist was notified to a device.
C19_Witness ==
    /\ MessageNotified /\ res.playlistId # 0 /\ expoCalls # <<>>
    /\ res.title = "New Playlist Shared"

\* ------------------------------------------- claims: own likes and comments
OwnerOps == {"sendPlaylistLikeNotification", "sendPlaylistCommentNotification"}

\* C20: a like or comment notification whose actor is the playlist owner
\* builds no payload and submits nothing, whatever tokens the owner has.
C20_OwnActionIsSuppressed ==
    (res.op \in OwnerOps /\ res.user = res.target) =>
        /\ expoCalls = <<>>
        /\ res.title = "" /\ res.tokens = <<>> /\ res.tickets = <<>>
        /\ res.notif = "nothing"

\* The owner has a well-formed token and acted on the own playlist.
C20_Witness ==
    /\ res.op \in OwnerOps /\ res.user = res.target
    /\ \E r \in pushTokens : r.userId = res.target /\ isExpoPushToken(r.token)
    /\ expoCalls = <<>>

\* ------------------------------------- claims: deleting and validating
\* The rows of the store that have the id and the user of the response
\* written by this step.
OwnedByCaller == {r \in pushTokens : r.id = res'.tokenId /\ r.userId = res'.user}

\* C21: deletePushToken answers not-found and changes no token row when no
\* row with the id belongs to the caller; otherwise it removes that row and
\* no other.
C21_DeleteOnlyOwnRow ==
    [][res'.op = "deletePushToken" =>
          IF OwnedByCaller = {}
          THEN res'.status = 404 /\ pushTokens' = pushTokens
          ELSE /\ res'.status = 200
               /\ Cardinality(OwnedByCaller) = 1
               /\ pushTokens' = pushTokens \ OwnedByCaller]_vars

\* The id asked for is a row of another user, which stays.
C21_Witness ==
    /\ res.op = "deletePushToken" /\ res.status = 404
    /\ \E r \in pushTokens : r.id = res.tokenId /\ r.userId # res.user

\* C22: registerPushToken rejects a platform other than ios and android and
\* a missing or empty token as invalid input, and then changes no token row.
C22_InvalidRegistrationRejected ==
    [][(/\ res'.op = "registerPushToken"
        /\ (res'.token = "" \/ res'.platform \notin Platforms))
          => (res'.status = 400 /\ pushTokens' = pushTokens)]_vars

\* A platform that is neither ios nor android was sent while rows exist.
C22_Witness ==
    /\ res.op = "registerPushToken" /\ res.status = 400
    /\ res.token # "" /\ res.platform \notin Platforms \cup {""}
    /\ pushTokens # {}

\* ------------------------------------------------- claims: read state
Unread(msgs, u) == {m \in msgs : m.toId = u /\ ~m.isRead}

\* C23: getUnreadMessageCount(u) is the number of messages to u with isRead
\* false; after markAllMessagesAsRead(u) there is none, and the number grows
\* only when a new message to u is created.
C23_UnreadCountIsExact ==
    /\ [](res.op = "getUnreadMessageCount" =>
             res.count = Cardinality(Unread(messages, res.user)))
    /\ [](res.op = "markAllMessagesAsRead" => Unread(messages, res.user) = {})
    /\ [][\A u \in Users :
             Cardinality(Unread(messages', u)) > Cardinality(Unread(messages, u))
                 => \E m \in messages' :
                        m.toId = u /\ ~\E x \in messages : x.id = m.id]_vars

\* The count is 0 for a user whose messages were all read, while another
\* user still has an unread one.
C23_Witness ==
    /\ res.op = "getUnreadMessageCount" /\ res.count = 0
    /\ \E m \in messages : m.toId = res.user /\ m.isRead
    /\ \E m \in messages : m.toId # res.user /\ ~m.isRead

\* C30: read state is monotonic and belongs to the recipient: no message
\* goes from read back to unread, readAt is set exactly when isRead is true,
\* and markMessageAsRead by anyone but the recipient answers not-found and
\* changes no message.
C30_ReadStateMonotonic ==
    /\ [][\A m \in messages, n \in messages' :
             (m.id = n.id /\ m.isRead) => n.isRead]_vars
    /\ [](\A m \in messages : m.isRead <=> m.readAt # 0)
    /\ [][(/\ res'.op = "markMessageAsRead"
           /\ ~\E m \in messages : m.id = res'.rowId /\ m.toId = res'.user)
             => (res'.status = 404 /\ messages' = messages)]_vars

\* The sender of an unread message tried to mark it, and a read message is
\* still read.
C30_Witness ==
    /\ res.op = "markMessageAsRead" /\ res.status = 404
    /\ \E m \in messages :
          m.id = res.rowId /\ m.fromId = res.user /\ m.toId # res.user /\ ~m.isRead
    /\ \E m \in messages : m.isRead /\ m.readAt # 0

\* ------------------------------------------- claims: limits of a share
\* C24: every message with a playlistId carries a playlist its sender owns;
\* sendMessage by a user who does not own the playlist, a recipient of it
\* included, answers not-found/unauthorized and creates no message.
C24_ShareOnlyByOwner ==
    /\ [](\A m \in messages :
             m.playlistId # 0 =>
                 \E p \in playlists : p.id = m.playlistId /\ p.userId = m.fromId)
    /\ [][(/\ res'.op = "sendMessage" /\ res'.playlistId # 0
           /\ res'.target \in Users
           /\ ~\E p \in playlists : p.id = res'.playlistId /\ p.userId = res'.user)
             => /\ res'.status = 404
                /\ res'.error = "Playlist not found or unauthorized"
                /\ messages' = messages]_vars

\* A recipient of the playlist tried to send it on.
C24_Witness ==
    /\ res.op = "sendMessage" /\ res.status = 404 /\ res.playlistId # 0
    /\ IsRecipient(res.user, res.playlistId)
    /\ \E p \in playlists : p.id = res.playlistId /\ p.userId # res.user

EditOps == {"updatePlaylist", "deletePlaylist", "addSongToPlaylist",
            "removeSongFromPlaylist"}

C26_GrantFollowsCurrentRows ==
    /\ []((/\ res.op = "getSharedPlaylist" /\ res.status = 200
           /\ ~Owns(res.user, res.playlistId))
             => IsRecipient(res.user, res.playlistId))
    /\ [](ListDone =>
             \A i \in 1..Len(res.sharedPlaylists) :
                 /\ PlaylistExists(res.sharedPlaylists[i].playlist.id)
                 /\ \E m \in messages :
                       /\ m.id = res.sharedPlaylists[i].messageId
                       /\ m.toId = res.user
                       /\ m.playlistId = res.sharedPlaylists[i].playlist.id)
    /\ [][(res'.op = "deleteConversation" /\ res'.status = 200) =>
             /\ \A m \in messages' :
                   {m.fromId, m.toId} # {res'.user, res'.target}
             /\ \A p \in playlists' :
                   /\ p.userId = res'.user => ~\E m \in messages' :
                          m.toId = res'.target /\ m.playlistId = p.id
                   /\ p.userId = res'.target => ~\E m \in messages' :
                          m.toId = res'.user /\ m.playlistId = p.id]_vars
    /\ [][(res'.op = "deletePlaylist" /\ res'.status = 200) =>
             \A m \in messages' : m.playlistId # res'.playlistId]_vars

\* The playlist still exists, the only messages ever written carried it to
\* the reader and are gone, and the reader is refused.
C26_Witness ==
    /\ res.op = "getSharedPlaylist" /\ res.status = 404 /\ res.user = "u2"
    /\ PlaylistExists(res.playlistId)
    /\ clock >= 2 /\ messages = {}

\* ------------------------------------------------ claims: racing follows
\* C27: however followUser requests for one pair interleave, the pair has at
\* most one Follow row, every such request is answered with success, and
\* only the request whose insert created the row submits a notification; a
\* request that finds the pair present submits none.  No row follows itself.
C27_RacingFollowsConverge ==
    /\ [](\A f \in follows, g \in follows :
             (f.followerId = g.followerId /\ f.followingId = g.followingId) => f = g)
    /\ [](\A f \in follows : f.followerId # f.followingId)
    /\ []((res.op = "followUser" /\ res.target \in Users /\ res.target # res.user)
             => res.status = 200)
    /\ []((res.op = "followUser" /\ res.error = "P2002") => expoCalls = <<>>)
    /\ [][(res'.op = "followUser" /\ expoCalls' # <<>>) =>
             /\ res'.rowId # 0
             /\ \E f \in follows :
                   /\ f.id = res'.rowId
                   /\ f.followerId = res'.user /\ f.followingId = res'.target]_vars

\* A request is told "already following" while the request that created the
\* row has not yet notified, and the target has a device.
C27_Witness ==
    /\ res.op = "followUser" /\ res.error = "P2002" /\ res.status = 200
    /\ \E s \in Slots :
          /\ reqs[s].op = "followUser" /\ reqs[s].pc = "notify"
          /\ reqs[s].user = res.user /\ reqs[s].target = res.target
    /\ \E r \in pushTokens : r.userId = res.target

\* ------------------------------------------- claims: who is notified
\* The tokens handed to the provider by the step just taken.
Targeted == Flatten(expoCalls')

\* C28: a notification for user X goes only to tokens registered under X when
\* its lookup runs: never to a token whose row was deleted before, and never
\* to a token that only another user has.
C28_OnlyCurrentTokensOfTarget ==
    [][(res'.op \in BusinessOps /\ expoCalls' # <<>>) =>
          /\ \A i \in 1..Len(Targeted) :
                \E r \in pushTokens : r.userId = res'.target /\ r.token = Targeted[i]
          /\ \A tk \in WellFormed :
                Count(Targeted, tk)
                    = Cardinality({r \in pushTokens :
                                      r.userId = res'.target /\ r.token = tk})]_vars

\* No tick of the clock without its row means no row was deleted.
Traceless(k) ==
    /\ \A r \in pushTokens : r.id # k /\ r.updatedAt # k
    /\ \A m \in messages : m.id # k
    /\ \A f \in follows : f.id # k

\* u2 deleted a device; a later message to u2 went to what u2 still has.
C28_Witness ==
    /\ res.op = "sendMessage" /\ expoCalls # <<>>
    /\ \E k \in 1..clock : Traceless(k)
    /\ \A r \in pushTokens : r.updatedAt = r.createdAt
    /\ Len(Flatten(expoCalls)) = Cardinality({r \in pushTokens : r.userId = "u2"})

\* ------------------------------------------------- claims: route order
\* C29: GET /shared is handled by getSharedPlaylists and GET /liked-songs by
\* getLikedSongs; neither is answered by the handler of GET /:playlistId.
C29_StaticPathsReachTheirHandlers ==
    /\ ~(/\ res.op = "getSharedPlaylist"
         /\ res.playlistId \in {paramId("shared"), paramId("liked-songs")})
    /\ dispatch("GET", <<"shared">>) = "getSharedPlaylists"
    /\ dispatch("GET", <<"liked-songs">>) = "getLikedSongs"

====
